---- MODULE Spec2Model ----
(***************************************************************************)
(* The LFG dungeon queue of src/P2/main.cpp: a counting semaphore of n     *)
(* instance slots, the shared player pool, the arrival thread, the         *)
(* dispatcher loop of main and one run_dungeon thread per formed party.    *)
(* Every thread is a program counter in pc; the two std::mutex objects are *)
(* variables holding their owner.                                          *)
(***************************************************************************)
EXTENDS Integers, Sequences, FiniteSets, TLC

(* ------------------------------ bounds --------------------------------- *)
\* largest capacity n typed in
MaxN == 2
\* largest initial tank / healer count typed in
MaxTanks == 1
MaxHealers == 1
\* the initial dps count typed in is a multiple of 3 up to 3 * MaxDpsTriples
MaxDpsTriples == 1
\* largest dungeon time typed in for t1 and t2
MaxT == 1
\* largest number of arrival cycles
MaxCycles == 1
\* number of concurrent callers of try_form_party in SpecCompose, minus one
MaxExtraCallers == 1
\* how far below 0 and above the test limit the times typed in SpecInputs go
MaxTimeOver == 2

(* ------------------------- program constants --------------------------- *)
\* the largest value of the C++ int holding each pool counter
INT_MAX == 2147483647
\* upper ends of add_tanks, add_heals, add_dps
ADD_TANKS_MAX == 2
ADD_HEALS_MAX == 2
ADD_DPS_MAX == 6
\* the test limit t2 is clamped to
T2_LIMIT == 15

(* --------------------------- thread identities ------------------------- *)
NoOwner == -1
Main == 0
Arrival == -2
CallerBase == -3
Callers == { CallerBase - j : j \in 0..MaxExtraCallers }

VARIABLES
    \* locals of main
    n, tanks, healers, dps, t1, t2, cycles, next_party_id, formed_any,
    \* globals
    g_max_instances, g_instance_slots, count,
    g_data_mutex, g_cout_mutex,
    g_instance_status, g_parties_served, g_time_served,
    g_tanks, g_healers, g_dps, g_arrival_done,
    \* threads: program counter, and the locals of run_dungeon,
    \* arrival_thread_func and try_form_party
    pc, instance_id, duration, i, ok, ret,
    \* history: what the arrival thread added, how often try_form_party
    \* returned true, and what the dispatcher did after it read done = true
    added, composed, seen_done, tried_after_done

vars == << n, tanks, healers, dps, t1, t2, cycles, next_party_id, formed_any,
           g_max_instances, g_instance_slots, count,
           g_data_mutex, g_cout_mutex,
           g_instance_status, g_parties_served, g_time_served,
           g_tanks, g_healers, g_dps, g_arrival_done,
           pc, instance_id, duration, i, ok, ret,
           added, composed, seen_done, tried_after_done >>

mainLocals == << n, tanks, healers, dps, t1, t2, cycles, next_party_id, formed_any >>
semVars == << g_max_instances, g_instance_slots, count >>
registry == << g_instance_status, g_parties_served, g_time_served >>
pool == << g_tanks, g_healers, g_dps >>
workerLocals == << instance_id, duration >>
history == << added, composed, seen_done, tried_after_done >>

(* ------------------------------ helpers -------------------------------- *)
Workers == { t \in DOMAIN pc : t >= 1 }

At(t, label) == t \in DOMAIN pc /\ pc[t] = label

\* int + int for a non-negative right operand: signed overflow is undefined
\* behaviour; the outcomes are the two's complement wrap of the usual build
\* and the trap of a build with overflow checks.
IntAddOutcomes(a, b) ==
    IF a > INT_MAX - b
    THEN { [trap |-> FALSE, val |-> (a - INT_MAX) + (b - INT_MAX) - 2],
           [trap |-> TRUE, val |-> a] }
    ELSE { [trap |-> FALSE, val |-> a + b] }

RECURSIVE SumOver(_, _)
SumOver(f, S) ==
    IF S = {} THEN 0
    ELSE LET x == CHOOSE y \in S : TRUE IN f[x] + SumOver(f, S \ {x})

ActiveSlots == { s \in DOMAIN g_instance_status : g_instance_status[s] = "active" }

(* ------------------------------ mutexes -------------------------------- *)
\* std::mutex::lock returns only when no thread owns the mutex
CanLockBroken(m) == TRUE
CanLock(m) == m = NoOwner

(* --------------------------- CountingSemaphore ------------------------- *)
\* the predicate of cv.wait in acquire
SemAvailableBroken(c) == TRUE
SemAvailable(c) == c > 0

(* ------------------------------ Init ----------------------------------- *)
InitCommonPart ==
    /\ next_party_id = 0
    /\ formed_any = FALSE
    /\ g_max_instances = 0
    /\ g_instance_slots = FALSE
    /\ count = 0
    /\ g_data_mutex = NoOwner
    /\ g_cout_mutex = NoOwner
    /\ g_instance_status = << >>
    /\ g_parties_served = << >>
    /\ g_time_served = << >>
    /\ g_arrival_done = FALSE
    /\ instance_id = << >>
    /\ duration = << >>
    /\ i = 0
    /\ added = << 0, 0, 0 >>
    /\ composed = 0
    /\ seen_done = FALSE
    /\ tried_after_done = FALSE

\* the globals g_tanks, g_healers and g_dps start at 0
InitCommon ==
    /\ InitCommonPart
    /\ g_tanks = 0
    /\ g_healers = 0
    /\ g_dps = 0

Init ==
    /\ InitCommon
    /\ n \in 0..MaxN
    /\ tanks \in -1..MaxTanks
    /\ healers \in -1..MaxHealers
    /\ dps \in { -1 } \cup { 3 * k : k \in 0..MaxDpsTriples }
    /\ t1 \in 0..MaxT
    /\ t2 \in 0..MaxT
    /\ cycles \in 0..MaxCycles
    /\ pc = (Main :> "validate")
    /\ ok = (Main :> FALSE)
    /\ ret = (Main :> FALSE)

(* ------------------------- main: input validation ---------------------- *)
\* t1 and t2 after lines 199-208: negative values become 0, the two are
\* swapped when t1 > t2, and t2 is clamped to the test limit
ValidatedTimes(a, b) ==
    LET a0 == IF a < 0 THEN 0 ELSE a
        b0 == IF b < 0 THEN 0 ELSE b
        a1 == IF a0 > b0 THEN b0 ELSE a0
        b1 == IF a0 > b0 THEN a0 ELSE b0
    IN  << a1, IF b1 > T2_LIMIT THEN T2_LIMIT ELSE b1 >>

\* if (n <= 0): the capacity is rejected
InvalidCapacityNegativeOnly(k) == k < 0
InvalidCapacity(k) == k <= 0

\* if (tanks < 0 || healers < 0 || dps < 0): the player counts are rejected
NegativeCounts(t, h, d) == t < 0 \/ h < 0 \/ d < 0

MainValidate ==
    /\ At(Main, "validate")
    /\ IF InvalidCapacity(n)
       THEN /\ pc' = [pc EXCEPT ![Main] = "exit1"]
            /\ UNCHANGED << t1, t2 >>
       ELSE /\ t1' = ValidatedTimes(t1, t2)[1]
            /\ t2' = ValidatedTimes(t1, t2)[2]
            /\ pc' = [pc EXCEPT ![Main] =
                        IF NegativeCounts(tanks, healers, dps)
                        THEN "exit1" ELSE "setup"]
    /\ UNCHANGED << n, tanks, healers, dps, cycles, next_party_id, formed_any,
                    semVars, g_data_mutex, g_cout_mutex, registry, pool,
                    g_arrival_done, workerLocals, i, ok, ret, history >>

(* ----------------- main: shared resources and thread start ------------- *)
\* the initial permits of new CountingSemaphore(n)
InitialPermitsOffByOne(k) == k + 1
InitialPermits(k) == k

\* vector::resize(k, v) of an empty vector, indexed 0 .. k-1
Resized(k, v) == [ s \in 0..(k - 1) |-> v ]

MainSetup ==
    /\ At(Main, "setup")
    /\ g_max_instances' = n
    /\ g_instance_slots' = TRUE
    /\ count' = InitialPermits(n)
    /\ g_instance_status' = Resized(n, "empty")
    /\ g_parties_served' = Resized(n, 0)
    /\ g_time_served' = Resized(n, 0)
    /\ CanLock(g_data_mutex)
    /\ g_tanks' = tanks
    /\ g_healers' = healers
    /\ g_dps' = dps
    /\ g_arrival_done' = FALSE
    /\ i' = 0
    /\ next_party_id' = 0
    /\ formed_any' = FALSE
    /\ pc' = (Arrival :> "a_loop") @@ [pc EXCEPT ![Main] = "tfp_lock"]
    /\ UNCHANGED << n, tanks, healers, dps, t1, t2, cycles,
                    g_data_mutex, g_cout_mutex, workerLocals, ok, ret, history >>

(* ---------------------------- try_form_party --------------------------- *)
\* the condition of the if in try_form_party
SufficientStrict(t, h, d) == t > 1 /\ h > 1 /\ d > 3
Sufficient(t, h, d) == t >= 1 /\ h >= 1 /\ d >= 3

\* the pool after the body of the if
DeductedOneDps(t, h, d) == << t - 1, h - 1, d - 1 >>
Deducted(t, h, d) == << t - 1, h - 1, d - 3 >>

\* std::lock_guard lock(g_data_mutex)
TryLock(t) ==
    /\ At(t, "tfp_lock")
    /\ CanLock(g_data_mutex)
    /\ g_data_mutex' = t
    /\ pc' = [pc EXCEPT ![t] = "tfp_check"]
    /\ tried_after_done' = (tried_after_done \/ (t = Main /\ seen_done))
    /\ UNCHANGED << mainLocals, semVars, g_cout_mutex, registry, pool,
                    g_arrival_done, workerLocals, i, ok, ret,
                    added, composed, seen_done >>

\* the evaluation of the condition
TryCheck(t) ==
    /\ At(t, "tfp_check")
    /\ ok' = [ok EXCEPT ![t] = Sufficient(g_tanks, g_healers, g_dps)]
    /\ pc' = [pc EXCEPT ![t] = "tfp_act"]
    /\ UNCHANGED << mainLocals, semVars, g_data_mutex, g_cout_mutex, registry,
                    pool, g_arrival_done, workerLocals, i, ret, history >>

\* the deduction (when the condition held), the return and the unlock
TryEffect(t) ==
    /\ g_tanks' = IF ok[t] THEN Deducted(g_tanks, g_healers, g_dps)[1] ELSE g_tanks
    /\ g_healers' = IF ok[t] THEN Deducted(g_tanks, g_healers, g_dps)[2] ELSE g_healers
    /\ g_dps' = IF ok[t] THEN Deducted(g_tanks, g_healers, g_dps)[3] ELSE g_dps
    /\ ret' = [ret EXCEPT ![t] = ok[t]]
    /\ composed' = IF ok[t] THEN composed + 1 ELSE composed
    /\ g_data_mutex' = NoOwner

(* --------------------------- main: dispatcher -------------------------- *)
\* the return of try_form_party into while (try_form_party()) { ... }: on
\* true the party thread is created and the call is repeated, on false the
\* inner loop ends
MainTryAct ==
    /\ At(Main, "tfp_act")
    /\ TryEffect(Main)
    /\ IF ok[Main]
       THEN /\ next_party_id' = next_party_id + 1
            /\ formed_any' = TRUE
            /\ pc' = ((next_party_id + 1) :> "w_acquire")
                     @@ [pc EXCEPT ![Main] = "tfp_lock"]
            /\ instance_id' = ((next_party_id + 1) :> -1) @@ instance_id
            /\ duration' = ((next_party_id + 1) :> 0) @@ duration
       ELSE /\ pc' = [pc EXCEPT ![Main] = "chk_lock"]
            /\ UNCHANGED << next_party_id, formed_any, workerLocals >>
    /\ UNCHANGED << n, tanks, healers, dps, t1, t2, cycles, semVars,
                    g_cout_mutex, registry, g_arrival_done, i, ok,
                    added, seen_done, tried_after_done >>

MainCheckLock ==
    /\ At(Main, "chk_lock")
    /\ CanLock(g_data_mutex)
    /\ g_data_mutex' = Main
    /\ pc' = [pc EXCEPT ![Main] = "chk"]
    /\ UNCHANGED << mainLocals, semVars, g_cout_mutex, registry, pool,
                    g_arrival_done, workerLocals, i, ok, ret, history >>

\* if (g_arrival_done && !formed_any) break; otherwise the 100 ms sleep and
\* the next iteration, which starts with formed_any = false
LoopExitsIgnoresDone(done, formed) == ~formed
LoopExits(done, formed) == done /\ ~formed

MainCheck ==
    /\ At(Main, "chk")
    /\ seen_done' = (seen_done \/ g_arrival_done)
    /\ g_data_mutex' = NoOwner
    /\ IF LoopExits(g_arrival_done, formed_any)
       THEN /\ pc' = [pc EXCEPT ![Main] = "join_arrival"]
            /\ UNCHANGED formed_any
       ELSE /\ pc' = [pc EXCEPT ![Main] = "tfp_lock"]
            /\ formed_any' = FALSE
    /\ UNCHANGED << n, tanks, healers, dps, t1, t2, cycles, next_party_id,
                    semVars, g_cout_mutex, registry, pool, g_arrival_done,
                    workerLocals, i, ok, ret, added, composed, tried_after_done >>

MainJoinArrival ==
    /\ At(Main, "join_arrival")
    /\ At(Arrival, "a_finished")
    /\ pc' = [pc EXCEPT ![Main] = "join_parties"]
    /\ UNCHANGED << mainLocals, semVars, g_data_mutex, g_cout_mutex, registry,
                    pool, g_arrival_done, workerLocals, i, ok, ret, history >>

\* the joins of the party threads, the final summary and delete g_instance_slots
MainJoinParties ==
    /\ At(Main, "join_parties")
    /\ \A w \in Workers : pc[w] = "w_finished"
    /\ g_instance_slots' = FALSE
    /\ pc' = [pc EXCEPT ![Main] = "exit0"]
    /\ UNCHANGED << mainLocals, g_max_instances, count, g_data_mutex,
                    g_cout_mutex, registry, pool, g_arrival_done,
                    workerLocals, i, ok, ret, history >>

\* total_parties_all of the final summary
TotalParties == SumOver(g_parties_served, DOMAIN g_parties_served)

(* --------------------------- arrival_thread_func ----------------------- *)
\* the test of the for loop, and the sleep of a cycle
ArrLoop ==
    /\ At(Arrival, "a_loop")
    /\ pc' = [pc EXCEPT ![Arrival] = IF i < cycles THEN "a_add_lock" ELSE "a_done_lock"]
    /\ UNCHANGED << mainLocals, semVars, g_data_mutex, g_cout_mutex, registry,
                    pool, g_arrival_done, workerLocals, i, ok, ret, history >>

ArrAddLock ==
    /\ At(Arrival, "a_add_lock")
    /\ CanLock(g_data_mutex)
    /\ g_data_mutex' = Arrival
    /\ pc' = [pc EXCEPT ![Arrival] = "a_add"]
    /\ UNCHANGED << mainLocals, semVars, g_cout_mutex, registry, pool,
                    g_arrival_done, workerLocals, i, ok, ret, history >>

\* what add_tanks, add_heals and add_dps draw in one cycle: the two ends of
\* each uniform_int_distribution
Draws == {0, ADD_TANKS_MAX} \X {0, ADD_HEALS_MAX} \X {0, ADD_DPS_MAX}

\* g_tanks += at; g_healers += ah; g_dps += ad; and the unlock. A trapping
\* overflow ends the process after the additions before it.
ArrAdd ==
    /\ At(Arrival, "a_add")
    /\ \E d \in Draws :
       \E ot \in IntAddOutcomes(g_tanks, d[1]),
          oh \in IntAddOutcomes(g_healers, d[2]),
          od \in IntAddOutcomes(g_dps, d[3]) :
          /\ oh.trap => ~ot.trap
          /\ od.trap => ~ot.trap /\ ~oh.trap
          /\ g_tanks' = ot.val
          /\ g_healers' = IF ot.trap THEN g_healers ELSE oh.val
          /\ g_dps' = IF ot.trap \/ oh.trap THEN g_dps ELSE od.val
          /\ IF ot.trap \/ oh.trap \/ od.trap
             THEN /\ pc' = [ t \in DOMAIN pc |-> "aborted" ]
                  /\ UNCHANGED << added, g_data_mutex >>
             ELSE /\ pc' = [pc EXCEPT ![Arrival] = "a_print_lock"]
                  /\ added' = << added[1] + d[1], added[2] + d[2], added[3] + d[3] >>
                  /\ g_data_mutex' = NoOwner
    /\ UNCHANGED << mainLocals, semVars, g_cout_mutex, registry,
                    g_arrival_done, workerLocals, i, ok, ret,
                    composed, seen_done, tried_after_done >>

ArrPrintLock ==
    /\ At(Arrival, "a_print_lock")
    /\ CanLock(g_cout_mutex)
    /\ g_cout_mutex' = Arrival
    /\ pc' = [pc EXCEPT ![Arrival] = "a_print"]
    /\ UNCHANGED << mainLocals, semVars, g_data_mutex, registry, pool,
                    g_arrival_done, workerLocals, i, ok, ret, history >>

\* (ArrPrintMarksDone: g_arrival_done = true written inside the loop)
ArrPrintMarksDone ==
    /\ At(Arrival, "a_print")
    /\ g_cout_mutex' = NoOwner
    /\ i' = i + 1
    /\ g_arrival_done' = TRUE
    /\ pc' = [pc EXCEPT ![Arrival] = "a_loop"]
    /\ UNCHANGED << mainLocals, semVars, g_data_mutex, registry, pool,
                    workerLocals, ok, ret, history >>

\* the "[Arrival] added" line, the unlock of g_cout_mutex and ++i
ArrPrint ==
    /\ At(Arrival, "a_print")
    /\ g_cout_mutex' = NoOwner
    /\ i' = i + 1
    /\ pc' = [pc EXCEPT ![Arrival] = "a_loop"]
    /\ UNCHANGED << mainLocals, semVars, g_data_mutex, registry, pool,
                    g_arrival_done, workerLocals, ok, ret, history >>

ArrDoneLock ==
    /\ At(Arrival, "a_done_lock")
    /\ CanLock(g_data_mutex)
    /\ g_data_mutex' = Arrival
    /\ pc' = [pc EXCEPT ![Arrival] = "a_set_done"]
    /\ UNCHANGED << mainLocals, semVars, g_cout_mutex, registry, pool,
                    g_arrival_done, workerLocals, i, ok, ret, history >>

ArrSetDone ==
    /\ At(Arrival, "a_set_done")
    /\ g_arrival_done' = TRUE
    /\ g_data_mutex' = NoOwner
    /\ pc' = [pc EXCEPT ![Arrival] = "a_finished"]
    /\ UNCHANGED << mainLocals, semVars, g_cout_mutex, registry, pool,
                    workerLocals, i, ok, ret, history >>

(* ------------------------------ run_dungeon ---------------------------- *)
\* the draw of the duration and g_instance_slots->acquire(): the wait for
\* count > 0 and --count, under the semaphore's own mutex
WAcquire(w) ==
    /\ At(w, "w_acquire")
    /\ SemAvailable(count)
    /\ count' = count - 1
    /\ \E dur \in t1..t2 : duration' = [duration EXCEPT ![w] = dur]
    /\ pc' = [pc EXCEPT ![w] = "w_claim_lock"]
    /\ UNCHANGED << mainLocals, g_max_instances, g_instance_slots, g_data_mutex,
                    g_cout_mutex, registry, pool, g_arrival_done, instance_id,
                    i, ok, ret, history >>

WClaimLock(w) ==
    /\ At(w, "w_claim_lock")
    /\ CanLock(g_data_mutex)
    /\ g_data_mutex' = w
    /\ pc' = [pc EXCEPT ![w] = "w_claim"]
    /\ UNCHANGED << mainLocals, semVars, g_cout_mutex, registry, pool,
                    g_arrival_done, workerLocals, i, ok, ret, history >>

\* the result of the scan for (i = 0; i < g_max_instances; ++i): the first
\* index whose status is "empty", or -1
FirstEmptyIgnoresStatus(status, max) == IF max >= 1 THEN 0 ELSE -1
FirstEmptyFromTop(status, max) ==
    LET empties == { s \in 0..(max - 1) : status[s] = "empty" }
    IN  IF empties = {} THEN -1
        ELSE CHOOSE s \in empties : \A u \in empties : s >= u
FirstEmpty(status, max) ==
    LET empties == { s \in 0..(max - 1) : status[s] = "empty" }
    IN  IF empties = {} THEN -1
        ELSE CHOOSE s \in empties : \A u \in empties : s <= u

WClaim(w) ==
    /\ At(w, "w_claim")
    /\ LET id == FirstEmpty(g_instance_status, g_max_instances)
       IN  /\ instance_id' = [instance_id EXCEPT ![w] = id]
           /\ g_instance_status' =
                IF id >= 0 THEN [g_instance_status EXCEPT ![id] = "active"]
                ELSE g_instance_status
    /\ g_data_mutex' = NoOwner
    /\ pc' = [pc EXCEPT ![w] = "w_enter_lock"]
    /\ UNCHANGED << mainLocals, semVars, g_cout_mutex, g_parties_served,
                    g_time_served, pool, g_arrival_done, duration, i, ok, ret,
                    history >>

\* the lock of g_cout_mutex before the "entered" and the "finished" lines
WCoutLock(w, from, to) ==
    /\ At(w, from)
    /\ CanLock(g_cout_mutex)
    /\ g_cout_mutex' = w
    /\ pc' = [pc EXCEPT ![w] = to]
    /\ UNCHANGED << mainLocals, semVars, g_data_mutex, registry, pool,
                    g_arrival_done, workerLocals, i, ok, ret, history >>

\* print_status: the lock of g_data_mutex while g_cout_mutex is held
WStatusLock(w, from, to) ==
    /\ At(w, from)
    /\ CanLock(g_data_mutex)
    /\ g_data_mutex' = w
    /\ pc' = [pc EXCEPT ![w] = to]
    /\ UNCHANGED << mainLocals, semVars, g_cout_mutex, registry, pool,
                    g_arrival_done, workerLocals, i, ok, ret, history >>

\* the end of print_status and of the printing block: both locks released
WStatusEnd(w, from, to) ==
    /\ At(w, from)
    /\ g_data_mutex' = NoOwner
    /\ g_cout_mutex' = NoOwner
    /\ pc' = [pc EXCEPT ![w] = to]
    /\ UNCHANGED << mainLocals, semVars, registry, pool,
                    g_arrival_done, workerLocals, i, ok, ret, history >>

WEnterLock(w) == WCoutLock(w, "w_enter_lock", "w_enter_status")
WEnterStatus(w) == WStatusLock(w, "w_enter_status", "w_enter_end")
WEnterEnd(w) == WStatusEnd(w, "w_enter_end", "w_run")

\* the end of the sleep and the lock of the branch taken by
\* if (instance_id >= 0): g_data_mutex, else g_cout_mutex
WRun(w) ==
    /\ At(w, "w_run")
    /\ IF instance_id[w] >= 0
       THEN /\ CanLock(g_data_mutex)
            /\ g_data_mutex' = w
            /\ UNCHANGED g_cout_mutex
       ELSE /\ CanLock(g_cout_mutex)
            /\ g_cout_mutex' = w
            /\ UNCHANGED g_data_mutex
    /\ pc' = [pc EXCEPT ![w] = "w_finish"]
    /\ UNCHANGED << mainLocals, semVars, registry, pool,
                    g_arrival_done, workerLocals, i, ok, ret, history >>

\* g_parties_served[instance_id]++
ServedForgotten(served, id) == served
Served(served, id) == [served EXCEPT ![id] = @ + 1]

\* the first statement of the branch: the slot's status becomes "empty", or
\* the error line is printed and g_cout_mutex released
WFinish(w) ==
    /\ At(w, "w_finish")
    /\ IF instance_id[w] >= 0
       THEN /\ g_instance_status' = [g_instance_status EXCEPT ![instance_id[w]] = "empty"]
            /\ pc' = [pc EXCEPT ![w] = "w_finish_served"]
            /\ UNCHANGED g_cout_mutex
       ELSE /\ g_cout_mutex' = NoOwner
            /\ pc' = [pc EXCEPT ![w] = "w_fin_lock"]
            /\ UNCHANGED g_instance_status
    /\ UNCHANGED << mainLocals, semVars, g_data_mutex, g_parties_served,
                    g_time_served, pool, g_arrival_done, workerLocals,
                    i, ok, ret, history >>

WFinishServed(w) ==
    /\ At(w, "w_finish_served")
    /\ g_parties_served' = Served(g_parties_served, instance_id[w])
    /\ pc' = [pc EXCEPT ![w] = "w_finish_time"]
    /\ UNCHANGED << mainLocals, semVars, g_data_mutex, g_cout_mutex,
                    g_instance_status, g_time_served, pool, g_arrival_done,
                    workerLocals, i, ok, ret, history >>

\* g_time_served[instance_id] += duration
TimeAddedForgotten(time, id, dur) == time
TimeAdded(time, id, dur) == [time EXCEPT ![id] = @ + dur]

\* (WFinishTimeKeepsLock: the lock_guard of the branch outlives the block)
WFinishTimeKeepsLock(w) ==
    /\ At(w, "w_finish_time")
    /\ g_time_served' = TimeAdded(g_time_served, instance_id[w], duration[w])
    /\ pc' = [pc EXCEPT ![w] = "w_fin_lock"]
    /\ UNCHANGED << mainLocals, semVars, g_data_mutex, g_cout_mutex,
                    g_instance_status, g_parties_served, pool, g_arrival_done,
                    workerLocals, i, ok, ret, history >>

\* the last statement of the branch and the unlock of g_data_mutex
WFinishTime(w) ==
    /\ At(w, "w_finish_time")
    /\ g_time_served' = TimeAdded(g_time_served, instance_id[w], duration[w])
    /\ g_data_mutex' = NoOwner
    /\ pc' = [pc EXCEPT ![w] = "w_fin_lock"]
    /\ UNCHANGED << mainLocals, semVars, g_cout_mutex, g_instance_status,
                    g_parties_served, pool, g_arrival_done, workerLocals,
                    i, ok, ret, history >>

WFinLock(w) == WCoutLock(w, "w_fin_lock", "w_fin_status")
WFinStatus(w) == WStatusLock(w, "w_fin_status", "w_fin_end")
WFinEnd(w) == WStatusEnd(w, "w_fin_end", "w_release")

\* g_instance_slots->release(): ++count, under the semaphore's own mutex;
\* the thread ends and its locals with it
ReleasedTwice(c) == c + 2
ReleasedForgotten(c) == c
Released(c) == c + 1

WRelease(w) ==
    /\ At(w, "w_release")
    /\ count' = Released(count)
    /\ pc' = [pc EXCEPT ![w] = "w_finished"]
    /\ instance_id' = [ x \in DOMAIN instance_id \ {w} |-> instance_id[x] ]
    /\ duration' = [ x \in DOMAIN duration \ {w} |-> duration[x] ]
    /\ UNCHANGED << mainLocals, g_max_instances, g_instance_slots, g_data_mutex,
                    g_cout_mutex, registry, pool, g_arrival_done,
                    i, ok, ret, history >>

(* --------------------------- the program ------------------------------- *)
MainStep ==
    \/ MainValidate
    \/ MainSetup
    \/ TryLock(Main)
    \/ TryCheck(Main)
    \/ MainTryAct
    \/ MainCheckLock
    \/ MainCheck
    \/ MainJoinArrival
    \/ MainJoinParties

ArrivalStep ==
    \/ ArrLoop
    \/ ArrAddLock
    \/ ArrAdd
    \/ ArrPrintLock
    \/ ArrPrint
    \/ ArrDoneLock
    \/ ArrSetDone

WorkerStep(w) ==
    \/ WAcquire(w)
    \/ WClaimLock(w)
    \/ WClaim(w)
    \/ WEnterLock(w)
    \/ WEnterStatus(w)
    \/ WEnterEnd(w)
    \/ WRun(w)
    \/ WFinish(w)
    \/ WFinishServed(w)
    \/ WFinishTime(w)
    \/ WFinLock(w)
    \/ WFinStatus(w)
    \/ WFinEnd(w)
    \/ WRelease(w)

Next ==
    \/ MainStep
    \/ ArrivalStep
    \/ \E w \in Workers : WorkerStep(w)

Spec == Init /\ [][Next]_vars

(* ------------- try_form_party called by concurrent threads ------------- *)
\* the return of try_form_party to a caller that only records the result
CallerTryAct(c) ==
    /\ At(c, "tfp_act")
    /\ TryEffect(c)
    /\ pc' = [pc EXCEPT ![c] = "returned"]
    /\ UNCHANGED << mainLocals, semVars, g_cout_mutex, registry,
                    g_arrival_done, workerLocals, i, ok,
                    added, seen_done, tried_after_done >>

InitCompose ==
    /\ InitCommonPart
    /\ n = 0 /\ t1 = 0 /\ t2 = 0 /\ cycles = 0
    /\ tanks \in 0..(MaxTanks + 1)
    /\ healers \in 0..(MaxHealers + 1)
    /\ dps \in 0..(3 * MaxDpsTriples + 1)
    /\ g_tanks = tanks
    /\ g_healers = healers
    /\ g_dps = dps
    /\ pc = [ c \in Callers |-> "tfp_lock" ]
    /\ ok = [ c \in Callers |-> FALSE ]
    /\ ret = [ c \in Callers |-> FALSE ]

NextCompose ==
    \E c \in Callers :
        \/ TryLock(c)
        \/ TryCheck(c)
        \/ CallerTryAct(c)

SpecCompose == InitCompose /\ [][NextCompose]_vars

(* ------------------ initial tank counts near INT_MAX ------------------- *)
InitWide ==
    /\ InitCommon
    /\ n = 1
    /\ tanks \in { INT_MAX - k : k \in 0..MaxTanks }
    /\ healers \in 0..MaxHealers
    /\ dps \in { 3 * k : k \in 0..MaxDpsTriples }
    /\ t1 = 0
    /\ t2 = 0
    /\ cycles \in 0..MaxCycles
    /\ pc = (Main :> "validate")
    /\ ok = (Main :> FALSE)
    /\ ret = (Main :> FALSE)

SpecWide == InitWide /\ [][Next]_vars

(* --------------------- fair scheduling of the threads ------------------ *)
\* the largest number of parties the initial healers and the arrivals allow
MaxParties == MaxHealers + ADD_HEALS_MAX * MaxCycles

\* accepted inputs with t1 = t2 = 0; only the tank count varies
InitFair ==
    /\ InitCommon
    /\ n \in 1..MaxN
    /\ tanks \in 0..MaxTanks
    /\ healers = MaxHealers
    /\ dps = 3 * MaxDpsTriples
    /\ t1 = 0
    /\ t2 = 0
    /\ cycles \in 0..MaxCycles
    /\ pc = (Main :> "validate")
    /\ ok = (Main :> FALSE)
    /\ ret = (Main :> FALSE)

\* every thread that can take a step again and again takes one: a thread
\* waiting for a mutex or for the semaphore is enabled only while it is free,
\* and the dispatcher sleeps 100 ms between two iterations with no lock held
Fairness ==
    /\ SF_vars(MainStep)
    /\ SF_vars(ArrivalStep)
    /\ \A w \in 1..MaxParties : SF_vars(WorkerStep(w))

SpecFair == InitFair /\ [][Next]_vars /\ Fairness

(* ----------------- any dungeon times typed in for t1, t2 --------------- *)
InitInputs ==
    /\ InitCommon
    /\ n \in 0..MaxN
    /\ tanks \in -1..MaxTanks
    /\ healers = MaxHealers
    /\ dps = 3 * MaxDpsTriples
    /\ t1 \in (0 - MaxTimeOver)..(T2_LIMIT + MaxTimeOver)
    /\ t2 \in (0 - MaxTimeOver)..(T2_LIMIT + MaxTimeOver)
    /\ cycles = 0
    /\ pc = (Main :> "validate")
    /\ ok = (Main :> FALSE)
    /\ ret = (Main :> FALSE)

\* main up to the start of the arrival thread
NextInputs ==
    \/ MainValidate
    \/ MainSetup

SpecInputs == InitInputs /\ [][NextInputs]_vars

(* ======================= properties of the program ===================== *)
MainLeftLoop == pc[Main] \in { "join_arrival", "join_parties", "exit0" }

\* a worker between its acquire and its release of the semaphore
HoldsPermit(w) == pc[w] \notin { "w_acquire", "w_finished", "aborted" }

\* a worker between the scan of the slots and the release of its slot
InDungeon(w) ==
    pc[w] \in { "w_enter_lock", "w_enter_status", "w_enter_end", "w_run", "w_finish" }

HoldsSlot(w) == InDungeon(w) /\ instance_id[w] >= 0

\* C1: in every reachable state the number of instances whose status is
\* "active" is at least 0 and at most the capacity, and so is the number of
\* parties inside an instance (past the scan, before their slot release).
C1_OccupiedWithinCapacity ==
    /\ Cardinality(ActiveSlots) >= 0
    /\ Cardinality(ActiveSlots) <= g_max_instances
    /\ Cardinality({ w \in Workers : InDungeon(w) }) <= g_max_instances

\* every slot is active while a further party waits for a permit
C1_Witness ==
    /\ g_max_instances >= 1
    /\ Cardinality(ActiveSlots) = g_max_instances
    /\ \E w \in Workers : pc[w] = "w_acquire"

\* C2 as claimed: while the semaphore exists, the number of active slots
\* equals the capacity minus the permits of the semaphore.
C2_ActiveEqualsTaken ==
    g_instance_slots => Cardinality(ActiveSlots) = g_max_instances - count

\* C2 amended: the number of active slots equals the capacity minus the
\* permits minus the number of workers that hold a permit but no slot (after
\* acquire and before the claim, or after the slot release and before release).
C2_ActiveEqualsTakenMinusInTransit ==
    g_instance_slots =>
        Cardinality(ActiveSlots) =
            g_max_instances - count
            - Cardinality({ w \in Workers : HoldsPermit(w) /\ ~HoldsSlot(w) })

\* one party is in its instance while another holds a permit without a slot
C2_Witness ==
    /\ g_instance_slots
    /\ Cardinality(ActiveSlots) >= 1
    /\ \E w \in Workers : HoldsPermit(w) /\ ~HoldsSlot(w)

\* C3: when the callers of SpecCompose started on the pool (1, 1, 3) and all
\* have returned, exactly one of them got true and the pool is (0, 0, 0).
C3_ExactlyOneComposes ==
    ( /\ tanks = 1 /\ healers = 1 /\ dps = 3
      /\ \A c \in Callers : At(c, "returned") )
    => /\ Cardinality({ c \in Callers : ret[c] }) = 1
       /\ g_tanks = 0 /\ g_healers = 0 /\ g_dps = 0

C3_Witness ==
    /\ tanks = 1 /\ healers = 1 /\ dps = 3
    /\ Cardinality(Callers) >= 2
    /\ \A c \in Callers : At(c, "returned")
    /\ \E c \in Callers : ~ret[c]

\* C4 as claimed: once the dispatcher has left its loop, the pool does not
\* hold a party (not tanks >= 1, healers >= 1 and dps >= 3).
C4_ExitOnlyWhenDrained ==
    MainLeftLoop => ~(g_tanks >= 1 /\ g_healers >= 1 /\ g_dps >= 3)

\* C5 as claimed: when the dispatcher has left its loop, it has called
\* try_form_party at least once after it first read g_arrival_done as true.
C5_TriesAgainAfterDone == MainLeftLoop => tried_after_done

\* C6 as claimed: the run with n = 2, the initial pool (0, 0, 0) and one
\* arrival cycle that added (2, 2, 6) ends with two parties served and the
\* pool at (0, 0, 0).
C6_TwoPartiesServed ==
    ( /\ At(Main, "exit0")
      /\ n = 2 /\ tanks = 0 /\ healers = 0 /\ dps = 0
      /\ cycles = 1 /\ added = << 2, 2, 6 >> )
    => /\ TotalParties = 2
       /\ g_tanks = 0 /\ g_healers = 0 /\ g_dps = 0

\* C7: after the joins, the sum of g_parties_served over all slots equals the
\* number of calls of try_form_party that returned true.
C7_ServedEqualsComposed == At(Main, "exit0") => TotalParties = composed

C7_Witness == At(Main, "exit0") /\ composed >= 2 /\ TotalParties >= 2

\* C8: g_arrival_done is true only when the arrival thread has completed all
\* its cycles and finished; a step never turns it from true to false; and the
\* only step that changes it is the arrival thread's write after its loop.
C8_DoneOnceByArrival ==
    /\ [](g_arrival_done => (At(Arrival, "a_finished") /\ i = cycles))
    /\ [][ /\ g_arrival_done => g_arrival_done'
           /\ g_arrival_done' # g_arrival_done =>
                /\ At(Arrival, "a_set_done")
                /\ pc'[Arrival] = "a_finished"
                /\ pc'[Main] = pc[Main]
                /\ \A w \in Workers : pc'[w] = pc[w] ]_vars

\* the flag is set after a cycle was run, and the dispatcher is still looping
C8_Witness == g_arrival_done /\ i >= 1 /\ ~MainLeftLoop

\* C9 as claimed: g_tanks, g_healers and g_dps are never negative.
C9_PoolNonNegative == g_tanks >= 0 /\ g_healers >= 0 /\ g_dps >= 0

\* C10: the return step of try_form_party returns true exactly when
\* tanks >= 1, healers >= 1 and dps >= 3, and then it has decreased them by
\* (1, 1, 3), otherwise it leaves them unchanged; while a thread is inside
\* try_form_party no other step changes the pool, so these are the values at
\* the call; and no step of try_form_party changes the slot statuses, the
\* per-slot statistics or g_arrival_done.
C10_TryFormPartyContract ==
    [][ \A t \in DOMAIN pc :
          LET inside == pc[t] \in { "tfp_check", "tfp_act" }
              steps == pc[t] \in { "tfp_lock", "tfp_check", "tfp_act" } /\ pc'[t] # pc[t]
              can == g_tanks >= 1 /\ g_healers >= 1 /\ g_dps >= 3
          IN  /\ (pc[t] = "tfp_act" /\ steps) =>
                    /\ ret'[t] = can
                    /\ g_tanks' = IF can THEN g_tanks - 1 ELSE g_tanks
                    /\ g_healers' = IF can THEN g_healers - 1 ELSE g_healers
                    /\ g_dps' = IF can THEN g_dps - 3 ELSE g_dps
              /\ (pc[t] \in { "tfp_lock", "tfp_check" } /\ steps) => UNCHANGED pool
              /\ (inside /\ ~steps) => UNCHANGED pool
              /\ steps => UNCHANGED << registry, g_arrival_done >> ]_vars

\* a call has returned true and a later call has returned false
C10_Witness == composed >= 1 /\ ret[Main] = FALSE /\ At(Main, "chk_lock")

\* C11: no two distinct workers hold the same instance_id between their claim
\* of a slot and their release of it.
C11_OnePartyPerSlot ==
    \A w1 \in Workers : \A w2 \in Workers :
        (w1 # w2 /\ HoldsSlot(w1) /\ HoldsSlot(w2)) => instance_id[w1] # instance_id[w2]

\* two parties are inside two instances at the same time
C11_Witness ==
    \E w1 \in Workers : \E w2 \in Workers :
        /\ w1 # w2
        /\ HoldsSlot(w1) /\ HoldsSlot(w2)
        /\ pc[w1] = "w_run" /\ pc[w2] = "w_run"

\* a worker past the scan of the slots and not yet ended
PastScan(w) ==
    pc[w] \in { "w_enter_lock", "w_enter_status", "w_enter_end", "w_run",
                "w_finish", "w_finish_served", "w_finish_time",
                "w_fin_lock", "w_fin_status", "w_fin_end", "w_release" }

\* C12: no worker that has finished the scan of the slots has instance_id = -1.
C12_ScanFindsSlot ==
    \A w \in Workers : PastScan(w) => instance_id[w] >= 0

\* a party that had to wait for a permit has found the slot another party freed
C12_Witness ==
    \E w \in Workers :
        /\ w > g_max_instances
        /\ At(w, "w_enter_lock")
        /\ instance_id[w] >= 0
        /\ SumOver(g_parties_served, DOMAIN g_parties_served) >= 1

\* the dispatcher has returned from the joins, every party thread has ended,
\* every slot is "empty" and the semaphore holds all its permits
Completed ==
    /\ At(Main, "exit0")
    /\ \A w \in Workers : pc[w] = "w_finished"
    /\ Cardinality(Workers) = composed
    /\ \A s \in DOMAIN g_instance_status : g_instance_status[s] = "empty"
    /\ count = g_max_instances

\* C13: under fair scheduling every run of an accepted configuration reaches,
\* and stays in, the state where the dispatcher has left its loop and
\* returned from the joins, every spawned worker has finished, every slot is
\* "empty" and the semaphore holds n permits.
C13_RunsToCompletion == <>[]Completed

\* the run has completed after a party had to wait for the only permit
C13_Witness ==
    /\ Completed
    /\ n = 1
    /\ composed >= 2
    /\ g_parties_served[0] >= 2

\* C14: in the run with n = 1, the initial pool (1, 1, 3) and zero arrival
\* cycles, at most one party is ever formed, it is party 1 and the only slot
\* it holds is instance 0; once the dispatcher has left its loop one party
\* was formed; and under fair scheduling the run ends with that party
\* finished, instance 0 "empty", g_parties_served[0] = 1 and a total of 1.
C14_OnePartyScenario ==
    LET scenario == n = 1 /\ tanks = 1 /\ healers = 1 /\ dps = 3 /\ cycles = 0
        final == /\ At(Main, "exit0")
                 /\ composed = 1
                 /\ At(1, "w_finished")
                 /\ g_instance_status[0] = "empty"
                 /\ g_parties_served[0] = 1
                 /\ TotalParties = 1
    IN  /\ [](scenario =>
               /\ composed <= 1
               /\ Workers \subseteq { 1 }
               /\ \A w \in Workers : PastScan(w) => instance_id[w] = 0
               /\ MainLeftLoop => composed = 1
               /\ At(Main, "exit0") => final)
        /\ (scenario ~> final)

\* the scenario has ended with its one party served by instance 0
C14_Witness ==
    /\ n = 1 /\ tanks = 1 /\ healers = 1 /\ dps = 3 /\ cycles = 0
    /\ At(Main, "exit0")
    /\ g_parties_served[0] = 1
    /\ g_tanks = 0 /\ g_healers = 0 /\ g_dps = 0

\* C15: while no call of try_form_party has returned true no party thread
\* exists, the dispatcher has left its loop only with g_arrival_done read as
\* true after a call that returned false, and the total of the summary is 0;
\* and under fair scheduling a run whose pool never holds a party (tanks >= 1,
\* healers >= 1 and dps >= 3) ends with main past the joins, no party thread
\* and a total of 0.
C15_NothingComposable ==
    LET can == g_tanks >= 1 /\ g_healers >= 1 /\ g_dps >= 3
        final == /\ At(Main, "exit0")
                 /\ g_arrival_done
                 /\ Workers = {}
                 /\ next_party_id = 0
                 /\ TotalParties = 0
    IN  /\ [](composed = 0 =>
               /\ Workers = {}
               /\ MainLeftLoop =>
                    /\ g_arrival_done /\ seen_done
                    /\ ~formed_any
                    /\ ret[Main] = FALSE
               /\ At(Main, "exit0") => TotalParties = 0)
        /\ <>(can \/ final)

\* a run has ended without a party although the arrival thread added
\* healers and dps: no tank ever came
C15_Witness ==
    /\ At(Main, "exit0")
    /\ tanks = 0
    /\ cycles >= 1
    /\ added[1] = 0 /\ added[2] >= 1 /\ added[3] >= 3
    /\ composed = 0
    /\ Workers = {}
    /\ TotalParties = 0

\* C16: when the capacity typed in is <= 0 or one of the player counts is
\* negative, main is the only thread there ever is and it is at validation or
\* at return 1, its validation step leads to return 1, the semaphore is not
\* created, the pool counters stay 0 and the per-slot vectors stay empty.
C16_InvalidConfigExits ==
    /\ []( (n <= 0 \/ tanks < 0 \/ healers < 0 \/ dps < 0) =>
            /\ DOMAIN pc = { Main }
            /\ pc[Main] \in { "validate", "exit1" }
            /\ ~g_instance_slots
            /\ count = 0 /\ g_max_instances = 0
            /\ g_tanks = 0 /\ g_healers = 0 /\ g_dps = 0
            /\ g_instance_status = << >>
            /\ g_parties_served = << >>
            /\ g_time_served = << >>
            /\ ~g_arrival_done )
    /\ [][ /\ ((n <= 0 \/ tanks < 0 \/ healers < 0 \/ dps < 0) /\ pc[Main] = "validate")
                => pc'[Main] = "exit1"
           /\ (pc'[Main] = "exit1" /\ pc[Main] # "exit1")
                => ((n <= 0 \/ tanks < 0 \/ healers < 0 \/ dps < 0) /\ pc[Main] = "validate") ]_vars

\* a positive capacity with a negative healer count has been rejected
C16_Witness ==
    /\ At(Main, "exit1")
    /\ n >= 1 /\ tanks >= 0 /\ dps >= 0
    /\ healers < 0

\* C17 as claimed: once main is past validation with an accepted capacity
\* and accepted counts, 0 <= t1 <= t2 <= 15 (the values later handed to every
\* run_dungeon thread), and main is at return 1 only when the capacity is
\* <= 0 or a player count is negative, whatever t1 and t2 were.
C17_TimesWithinBounds ==
    /\ pc[Main] \in { "setup", "tfp_lock" } =>
            (0 <= t1 /\ t1 <= t2 /\ t2 <= T2_LIMIT)
    /\ pc[Main] = "exit1" => (n <= 0 \/ tanks < 0 \/ healers < 0 \/ dps < 0)

\* C18: the step of a run_dungeon thread that ends its scan finds at least
\* one "empty" instance, sets instance_id to the smallest index whose status
\* is "empty" before the step, and changes the statuses only by making that
\* one "active"; the statistics are not changed; and a status becomes
\* "active" by no other step.
C18_LowestFreeClaimed ==
    [][ /\ \A w \in Workers :
              (pc[w] = "w_claim" /\ pc'[w] # pc[w]) =>
                LET empties == { s \in DOMAIN g_instance_status :
                                    g_instance_status[s] = "empty" }
                    id == instance_id'[w]
                IN  /\ empties # {}
                    /\ id \in empties
                    /\ \A u \in empties : id <= u
                    /\ g_instance_status' =
                         [ s \in DOMAIN g_instance_status |->
                             IF s = id THEN "active" ELSE g_instance_status[s] ]
                    /\ UNCHANGED << g_parties_served, g_time_served >>
        /\ \A s \in DOMAIN g_instance_status :
              (s \in DOMAIN g_instance_status' /\ g_instance_status[s] = "empty"
                  /\ g_instance_status'[s] = "active") =>
                \E w \in Workers : /\ pc[w] = "w_claim" /\ pc'[w] # pc[w]
                                   /\ instance_id'[w] = s ]_vars

\* the third party has claimed instance 0, freed by an earlier party, while
\* instance 1 is still "active"
C18_Witness ==
    /\ g_max_instances = 2
    /\ g_instance_status[1] = "active"
    /\ g_parties_served[0] >= 1
    /\ \E w \in Workers : At(w, "w_enter_lock") /\ instance_id[w] = 0

\* C19: once the semaphore is created count stays between 0 and n, and n
\* minus count is the number of run_dungeon threads past acquire and before
\* the end of release; while the semaphore exists a step lowers count only
\* as the acquire of one thread, from a count > 0 and by one, and raises it
\* only as the release of one thread that had acquired, by one; a thread
\* starts before its acquire, and a thread that has released takes no
\* further step.
C19_PermitsPaired ==
    /\ []( g_max_instances >= 1 =>
            /\ 0 <= count
            /\ count <= g_max_instances
            /\ g_max_instances - count =
                 Cardinality({ w \in Workers :
                     pc[w] \notin { "w_acquire", "w_finished", "aborted" } }) )
    /\ [][ g_instance_slots =>
            /\ count' # count =>
                 \E w \in Workers :
                    \/ /\ pc[w] = "w_acquire" /\ pc'[w] = "w_claim_lock"
                       /\ count > 0 /\ count' = count - 1
                    \/ /\ pc[w] = "w_release" /\ pc'[w] = "w_finished"
                       /\ count' = count + 1
            /\ \A w \in Workers :
                 /\ (pc[w] = "w_acquire" /\ pc'[w] # pc[w]) =>
                        (count > 0 /\ count' = count - 1)
                 /\ (pc[w] # "w_finished" /\ pc'[w] = "w_finished") =>
                        (pc[w] = "w_release" /\ count' = count + 1)
                 /\ pc[w] = "w_finished" => pc'[w] = "w_finished"
                 /\ (pc[w] # "w_acquire" /\ pc'[w] # pc[w]) => pc'[w] # "w_acquire"
            /\ \A w \in DOMAIN pc' \ DOMAIN pc : pc'[w] = "w_acquire" ]_vars

\* on n = 1: one party has released, one holds the only permit, one waits
C19_Witness ==
    /\ g_instance_slots
    /\ count = 0
    /\ \E w \in Workers : pc[w] = "w_finished"
    /\ \E w \in Workers : pc[w] = "w_run"
    /\ \E w \in Workers : pc[w] = "w_acquire"

\* C20: a run_dungeon thread that is at or between the three writes of its
\* finish branch (status "empty", g_parties_served + 1, g_time_served +
\* duration) owns g_data_mutex and no other thread is inside a section that
\* reads or writes the shared data; the three steps write exactly that, to
\* the thread's own slot and to nothing else, and leave count alone; no
\* other step changes the slot data between them; and the sum of
\* g_parties_served equals the number of threads past the second write, so
\* every thread at or past release() has completed the update.
C20_ReleaseSlotAtomic ==
    /\ []( \A w \in Workers :
              pc[w] \in { "w_finish", "w_finish_served", "w_finish_time" } =>
                /\ instance_id[w] >= 0
                /\ g_data_mutex = w
                /\ \A t \in DOMAIN pc \ { w } :
                      pc[t] \notin { "tfp_check", "tfp_act", "chk", "a_add",
                                     "a_set_done", "w_claim", "w_enter_end",
                                     "w_finish", "w_finish_served",
                                     "w_finish_time", "w_fin_end" } )
    /\ []( SumOver(g_parties_served, DOMAIN g_parties_served) =
              Cardinality({ w \in Workers :
                  pc[w] \in { "w_finish_time", "w_fin_lock", "w_fin_status",
                              "w_fin_end", "w_release", "w_finished" } }) )
    /\ [][ \A w \in Workers :
              /\ (pc[w] = "w_finish" /\ pc'[w] # pc[w]) =>
                    /\ pc'[w] = "w_finish_served"
                    /\ g_instance_status' =
                         [ s \in DOMAIN g_instance_status |->
                             IF s = instance_id[w] THEN "empty"
                             ELSE g_instance_status[s] ]
                    /\ UNCHANGED << g_parties_served, g_time_served, count >>
              /\ (pc[w] = "w_finish_served" /\ pc'[w] # pc[w]) =>
                    /\ pc'[w] = "w_finish_time"
                    /\ g_parties_served' =
                         [ s \in DOMAIN g_parties_served |->
                             IF s = instance_id[w] THEN g_parties_served[s] + 1
                             ELSE g_parties_served[s] ]
                    /\ UNCHANGED << g_instance_status, g_time_served, count >>
              /\ (pc[w] = "w_finish_time" /\ pc'[w] # pc[w]) =>
                    /\ pc'[w] = "w_fin_lock"
                    /\ g_time_served' =
                         [ s \in DOMAIN g_time_served |->
                             IF s = instance_id[w]
                             THEN g_time_served[s] + duration[w]
                             ELSE g_time_served[s] ]
                    /\ UNCHANGED << g_instance_status, g_parties_served, count >>
              /\ (pc[w] \in { "w_finish_served", "w_finish_time" }
                    /\ pc'[w] = pc[w]) => UNCHANGED registry
              /\ (pc[w] # "w_release" /\ pc'[w] = "w_release") =>
                    (pc[w] = "w_fin_end" /\ count' = count) ]_vars

\* a party of duration 1 is between its writes while another party waits
\* inside print_status for g_data_mutex
C20_Witness ==
    \E w \in Workers : \E w2 \in Workers :
        /\ w2 # w
        /\ At(w, "w_finish_time")
        /\ duration[w] = 1
        /\ g_instance_status[instance_id[w]] = "empty"
        /\ g_time_served[instance_id[w]] = 0
        /\ At(w2, "w_enter_status")

\* C21 as claimed: no thread holds g_data_mutex and g_cout_mutex at the same
\* time (each operation takes at most its own lock), and no two threads wait
\* for mutexes held by each other.
C21_AtMostOneLockHeld ==
    /\ \A t \in DOMAIN pc : ~(g_data_mutex = t /\ g_cout_mutex = t)
    /\ ~\E a \in DOMAIN pc : \E b \in DOMAIN pc :
            /\ a # b
            /\ g_data_mutex = a /\ g_cout_mutex = b
            /\ pc[a] \in { "a_print_lock", "w_enter_lock", "w_fin_lock" }
            /\ pc[b] \in { "w_enter_status", "w_fin_status" }

\* C21 amended: a thread holds both mutexes only inside print_status, where
\* it took g_data_mutex while it held g_cout_mutex; no thread takes
\* g_cout_mutex while it holds g_data_mutex; the owner of g_data_mutex is
\* never waiting for a mutex; and so no two threads wait for mutexes held by
\* each other.
C21_OneLockOrder ==
    /\ []( \A t \in DOMAIN pc :
              (g_data_mutex = t /\ g_cout_mutex = t) =>
                  pc[t] \in { "w_enter_end", "w_fin_end" } )
    /\ []( \A t \in DOMAIN pc :
              g_data_mutex = t =>
                  pc[t] \notin { "tfp_lock", "chk_lock", "a_add_lock",
                                 "a_done_lock", "a_print_lock", "w_claim_lock",
                                 "w_enter_lock", "w_enter_status", "w_run",
                                 "w_fin_lock", "w_fin_status" } )
    /\ []( ~\E a \in DOMAIN pc : \E b \in DOMAIN pc :
              /\ a # b
              /\ g_data_mutex = a /\ g_cout_mutex = b
              /\ pc[a] \in { "a_print_lock", "w_enter_lock", "w_fin_lock" }
              /\ pc[b] \in { "w_enter_status", "w_fin_status" } )
    /\ [][ \A t \in DOMAIN pc :
              /\ (g_cout_mutex # t /\ g_cout_mutex' = t) => g_data_mutex # t
              /\ (g_data_mutex # t /\ g_data_mutex' = t /\ g_cout_mutex = t) =>
                    pc[t] \in { "w_enter_status", "w_fin_status" } ]_vars

\* a party inside print_status holds both mutexes while main waits for
\* g_data_mutex and the arrival thread waits for g_cout_mutex
C21_Witness ==
    /\ \E w \in Workers :
          /\ g_data_mutex = w /\ g_cout_mutex = w
          /\ At(w, "w_enter_end")
    /\ At(Main, "tfp_lock")
    /\ At(Arrival, "a_print_lock")

\* C22 as claimed: a thread at the lock acquisition of try_form_party, of the
\* dispatcher's flag read, of the arrival add or of the arrival's flag write
\* never finds the lock held by a run_dungeon thread that is claiming a
\* slot, releasing a slot or taking a status snapshot.
C22_PoolNeverWaitsForRegistry ==
    \A t \in DOMAIN pc :
        pc[t] \in { "tfp_lock", "chk_lock", "a_add_lock", "a_done_lock" } =>
            ~\E w \in Workers :
                /\ g_data_mutex = w
                /\ pc[w] \in { "w_claim", "w_enter_end", "w_finish",
                                "w_finish_served", "w_finish_time", "w_fin_end" }

\* C23 as claimed: once main has set up the pool, for each of tanks, healers
\* and dps the count typed in plus what the arrival thread has added equals
\* the pool counter plus what the formed parties took (1, 1 and 3 per call of
\* try_form_party that returned true), and the number of party threads
\* created equals the number of such calls. Each balance is written as
\* counter - typed in = added - taken, after counter >= 0 (which the balance
\* implies, the parties never taking more than there is), so that neither
\* side leaves the range of the integers.
C23_PlayersConserved ==
    pc[Main] \notin { "validate", "setup", "exit1" } =>
        /\ g_tanks >= 0 /\ g_healers >= 0 /\ g_dps >= 0
        /\ g_tanks - tanks = added[1] - composed
        /\ g_healers - healers = added[2] - composed
        /\ g_dps - dps = added[3] - 3 * composed
        /\ Cardinality(Workers) = composed
        /\ next_party_id = composed

\* C24: the number of "active" slots is at most n minus count, which is at
\* most the number of run_dungeon threads past acquire and before the end of
\* release; and every "active" slot is the instance_id of exactly one thread
\* that is past its claim and before its slot release, hence holds a permit.
C24_ActiveSlotsHeld ==
    /\ Cardinality(ActiveSlots) <= g_max_instances - count
    /\ g_max_instances - count <=
         Cardinality({ w \in Workers :
             pc[w] \notin { "w_acquire", "w_finished", "aborted" } })
    /\ \A s \in DOMAIN g_instance_status :
          g_instance_status[s] = "active" =>
              Cardinality({ w \in Workers :
                  /\ pc[w] \in { "w_enter_lock", "w_enter_status",
                                  "w_enter_end", "w_run", "w_finish" }
                  /\ instance_id[w] = s }) = 1

\* on n = 2 with no permit left: one slot is "active" and held by a running
\* party, the other permit is with a party that has not claimed yet
C24_Witness ==
    /\ g_max_instances = 2
    /\ count = 0
    /\ Cardinality(ActiveSlots) = 1
    /\ \E w \in Workers : At(w, "w_run") /\ g_instance_status[instance_id[w]] = "active"
    /\ \E w \in Workers : At(w, "w_claim_lock")

====
